---- MODULE Spec2Model ----
(***************************************************************************)
(* A model of mn/Result.h: the RAII error message `Err` and the tagged     *)
(* union `Result<T, E = Err>`.                                             *)
(*                                                                         *)
(* Err owns a Str (mn/Str.h).  A Str is a (ptr, count) pair into a heap of *)
(* character buffers; the heap is modelled explicitly so that aliasing,    *)
(* leaks and double frees are visible.  Result keeps its payload in an     *)
(* inline byte buffer plus a discriminant `state`.                         *)
(***************************************************************************)
EXTENDS Integers, Sequences, FiniteSets, TLC

\* ------------------------------------------------------------------ bounds
MaxBufs == 5       \* heap buffers ever allocated in one run
MaxLen == 2        \* longest message a direct push may build

\* the program's objects: two Err variables, whose storage successive Err
\* instances reuse, and two Result instances, each constructed at most
\* once and destroyed at most once
ErrIds == {"e1", "e2"}
ResIds == {"r1", "r2"}
ArgIds == {"e1"}    \* the Err variable the Result constructors are given
None == "none"
BufIds == 1..MaxBufs

NULL == 0

\* characters, format templates (a sequence of literal characters and "{}"
\* placeholders) and format arguments
Chars == {"a", "b"}
Fmts == {<<>>, <<"{}">>, <<"a", "{}">>}
Args == {"b"}
Vals == {0, 42}

\* what reading a released buffer yields is not defined; the marker is no
\* message any constructor can produce
Dangling == <<"?">>

VARIABLES
    errs,      \* Err object -> [live, msg: Str]
    heap,      \* buffer -> [st, data, frees]
    results,   \* Result object -> [life, state, buf, how, src, mv]
    payloads,  \* the payload a Result constructed -> [type, dtors]
    copies,    \* pairs <<copy, original>> of live Err objects
    lastOp,    \* the operation that produced this state
    pc         \* "run", or "aborted" after a failed mn_assert

vars == <<errs, heap, results, payloads, copies, lastOp, pc>>

\* ------------------------------------------------------------ mn/Str.h
str_new == [ptr |-> NULL, count |-> 0]

Min(a, b) == IF a < b THEN a ELSE b

Unalloc(h) == {b \in BufIds : h[b].st = "unalloc"}

CanAlloc(h, n) == Cardinality(Unalloc(h)) >= n

Fresh(h) == CHOOSE b \in Unalloc(h) : \A c \in Unalloc(h) : b <= c

\* the characters a Str denotes: the first `count` characters of its buffer
MsgOf(h, s) ==
    IF s.ptr = NULL THEN <<>>
    ELSE IF h[s.ptr].st # "live" THEN Dangling
    ELSE SubSeq(h[s.ptr].data, 1, Min(s.count, Len(h[s.ptr].data)))

\* a new Str holding `content`; an empty one needs no buffer
str_from(h, content) ==
    IF content = <<>> THEN [s |-> str_new, h |-> h]
    ELSE LET b == Fresh(h) IN
         [s |-> [ptr |-> b, count |-> Len(content)],
          h |-> [h EXCEPT ![b] = [st |-> "live", data |-> content, frees |-> 0]]]

clone(h, s) == str_from(h, MsgOf(h, s))

str_free(h, s) ==
    IF s.ptr = NULL THEN h
    ELSE [h EXCEPT ![s.ptr] = [st |-> "freed", data |-> <<>>, frees |-> @.frees + 1]]

str_clear(h, s) ==
    IF s.ptr = NULL THEN [s |-> [s EXCEPT !.count = 0], h |-> h]
    ELSE [s |-> [s EXCEPT !.count = 0],
          h |-> IF h[s.ptr].st = "live" THEN [h EXCEPT ![s.ptr].data = <<>>] ELSE h]

str_push(h, s, content) ==
    IF s.ptr = NULL THEN str_from(h, content)
    ELSE [s |-> [s EXCEPT !.count = @ + Len(content)],
          h |-> IF h[s.ptr].st = "live"
                THEN [h EXCEPT ![s.ptr].data = MsgOf(h, s) \o content]
                ELSE h]

\* mn/Fmt.h: every "{}" of the template is replaced by the argument
RECURSIVE strf(_, _)
strf(fmt, arg) ==
    IF fmt = <<>> THEN <<>>
    ELSE (IF Head(fmt) = "{}" THEN <<arg>> ELSE <<Head(fmt)>>) \o strf(Tail(fmt), arg)

\* ------------------------------------------------------------------ Err
NoOp == [op |-> "none", dst |-> None, src |-> None, pre |-> <<>>, old |-> <<>>,
         ranE |-> 0, ranT |-> 0, out |-> "none", ret |-> <<>>,
         how |-> "none", mv |-> "no", pid |-> None]

Op(name, d, s, p, o) == [NoOp EXCEPT !.op = name, !.dst = d, !.src = s, !.pre = p, !.old = o]

Message(e) == MsgOf(heap, errs[e].msg)

\* explicit operator bool() const
ErrBool(e) == errs[e].msg.count # 0

DropPairs(e) == {p \in copies : p[1] # e /\ p[2] # e}

\* Err(): msg(str_new())
ErrDefault(e) ==
    /\ pc = "run"
    /\ ~errs[e].live
    /\ errs' = [errs EXCEPT ![e] = [live |-> TRUE, msg |-> str_new]]
    /\ lastOp' = Op("Err()", e, None, <<>>, <<>>)
    /\ UNCHANGED <<heap, results, payloads, copies, pc>>

\* Err(const char* fmt, TArgs&&... args): msg(strf(fmt, args...))
ErrFmt(e, fmt, arg) ==
    /\ pc = "run"
    /\ ~errs[e].live
    /\ CanAlloc(heap, 1)
    /\ LET r == str_from(heap, strf(fmt, arg)) IN
       /\ errs' = [errs EXCEPT ![e] = [live |-> TRUE, msg |-> r.s]]
       /\ heap' = r.h
    /\ lastOp' = Op("Err(fmt)", e, None, <<>>, <<>>)
    /\ UNCHANGED <<results, payloads, copies, pc>>

\* ErrCopy taking the source's buffer instead of cloning it
ErrCopy_shallow(e, o) ==
    /\ pc = "run"
    /\ ~errs[e].live
    /\ errs[o].live
    /\ CanAlloc(heap, 1)
    /\ errs' = [errs EXCEPT ![e] = [live |-> TRUE, msg |-> errs[o].msg]]
    /\ copies' = copies \cup {<<e, o>>}
    /\ lastOp' = Op("Err(const&)", e, o, Message(o), <<>>)
    /\ UNCHANGED <<heap, results, payloads, pc>>

\* Err(const Err& other): msg(clone(other.msg))
ErrCopy(e, o) ==
    /\ pc = "run"
    /\ ~errs[e].live
    /\ errs[o].live
    /\ CanAlloc(heap, 1)
    /\ LET r == clone(heap, errs[o].msg) IN
       /\ errs' = [errs EXCEPT ![e] = [live |-> TRUE, msg |-> r.s]]
       /\ heap' = r.h
    /\ copies' = copies \cup {<<e, o>>}
    /\ lastOp' = Op("Err(const&)", e, o, Message(o), <<>>)
    /\ UNCHANGED <<results, payloads, pc>>

\* ErrMove without `other.msg = str_new()`
ErrMove_noreset(e, o) ==
    /\ pc = "run"
    /\ ~errs[e].live
    /\ errs[o].live
    /\ errs' = [errs EXCEPT ![e] = [live |-> TRUE, msg |-> errs[o].msg]]
    /\ lastOp' = Op("Err(&&)", e, o, Message(o), <<>>)
    /\ UNCHANGED <<heap, results, payloads, copies, pc>>

\* Err(Err&& other): msg(other.msg) { other.msg = str_new(); }
ErrMove(e, o) ==
    /\ pc = "run"
    /\ ~errs[e].live
    /\ errs[o].live
    /\ errs' = [errs EXCEPT ![e] = [live |-> TRUE, msg |-> errs[o].msg],
                            ![o].msg = str_new]
    /\ lastOp' = Op("Err(&&)", e, o, Message(o), <<>>)
    /\ UNCHANGED <<heap, results, payloads, copies, pc>>

\* ~Err() { str_free(msg); }
ErrDtor(e) ==
    /\ pc = "run"
    /\ errs[e].live
    /\ heap' = str_free(heap, errs[e].msg)
    /\ errs' = [errs EXCEPT ![e] = [live |-> FALSE, msg |-> str_new]]
    /\ copies' = DropPairs(e)
    /\ lastOp' = Op("~Err", e, None, <<>>, <<>>)
    /\ UNCHANGED <<results, payloads, pc>>

\* operator=(const Err& other) { str_clear(msg); str_push(msg, other.msg); }
\* `other` is a reference: it is read after msg has been cleared.
ErrAssignCopy(e, o) ==
    /\ pc = "run"
    /\ errs[e].live
    /\ errs[o].live
    /\ CanAlloc(heap, 1)
    /\ LET c == str_clear(heap, errs[e].msg)
           errs1 == [errs EXCEPT ![e].msg = c.s]
           p == str_push(c.h, errs1[e].msg, MsgOf(c.h, errs1[o].msg))
       IN /\ errs' = [errs1 EXCEPT ![e].msg = p.s]
          /\ heap' = p.h
    /\ copies' = IF e = o THEN copies ELSE copies \cup {<<e, o>>}
    /\ lastOp' = Op("=(const&)", e, o, Message(o), Message(e))
    /\ UNCHANGED <<results, payloads, pc>>

\* ErrAssignMove without `str_free(msg)`
ErrAssignMove_leak(e, o) ==
    /\ pc = "run"
    /\ errs[e].live
    /\ errs[o].live
    /\ LET errs1 == [errs EXCEPT ![e].msg = errs[o].msg]
       IN errs' = [errs1 EXCEPT ![o].msg = str_new]
    /\ lastOp' = Op("=(&&)", e, o, Message(o), Message(e))
    /\ UNCHANGED <<heap, results, payloads, copies, pc>>

\* operator=(Err&& other) { str_free(msg); msg = other.msg; other.msg = str_new(); }
ErrAssignMove(e, o) ==
    /\ pc = "run"
    /\ errs[e].live
    /\ errs[o].live
    /\ LET h1 == str_free(heap, errs[e].msg)
           errs1 == [errs EXCEPT ![e].msg = errs[o].msg]
       IN /\ errs' = [errs1 EXCEPT ![o].msg = str_new]
          /\ heap' = h1
    /\ lastOp' = Op("=(&&)", e, o, Message(o), Message(e))
    /\ UNCHANGED <<results, payloads, copies, pc>>

\* Str msg is a public member: a caller appends to it directly
ErrPush(e, c) ==
    /\ pc = "run"
    /\ errs[e].live
    /\ errs[e].msg.count < MaxLen
    /\ CanAlloc(heap, 1)
    /\ LET p == str_push(heap, errs[e].msg, <<c>>) IN
       /\ errs' = [errs EXCEPT ![e].msg = p.s]
       /\ heap' = p.h
    /\ lastOp' = Op("push", e, None, <<>>, <<>>)
    /\ UNCHANGED <<results, payloads, copies, pc>>

\* --------------------------------------------------------------- Result
STATE_EMPTY == 0
STATE_ERROR == 1
STATE_VALUE == 2

\* s & bit, for the two one-bit masks of enum STATE
BitAnd(s, bit) == IF (s \div bit) % 2 = 1 THEN bit ELSE 0

\* mn/Assert.h: a false condition aborts the process
mn_assert(cond) == IF cond THEN "run" ELSE "aborted"

\* bool has_error() const { return state & STATE_ERROR; }
has_error(r) == BitAnd(results[r].state, STATE_ERROR) # 0

\* has_value testing the whole discriminant instead of the VALUE bit
has_value_nonempty(r) == results[r].state # STATE_EMPTY

\* bool has_value() const { return state & STATE_VALUE; }
has_value(r) == BitAnd(results[r].state, STATE_VALUE) # 0

NoResult == [life |-> "unborn", state |-> 0, buf |-> [msg |-> str_new, val |-> 0, pid |-> None],
             how |-> "none", src |-> <<>>, mv |-> "no"]

\* PlaceErr copying the parameter's bytes instead of copy-constructing
PlaceErr_shallow(h, s) == [s |-> s, h |-> h]

\* ::new (_buffer) E(e): the payload is copy-constructed from the parameter
PlaceErr(h, s) == clone(h, s)

\* T_ctor dropping the forwarded arguments
T_ctor_default(args) == 0

\* ::new (_buffer) T(std::forward<TArgs>(args)...): T() is zero, T(v) is v
T_ctor(args) == IF args = <<>> THEN 0 ELSE args[1]

\* Result(E e) called with an lvalue: the by-value parameter is a copy of
\* the argument, the payload is a copy of the parameter, and the parameter
\* is destroyed when the constructor returns
ResultFromErr(r, e) ==
    /\ pc = "run"
    /\ results[r].life = "unborn"
    /\ errs[e].live
    /\ CanAlloc(heap, 2)
    /\ LET param == clone(heap, errs[e].msg)
           placed == PlaceErr(param.h, param.s)
           pid == r
       IN /\ heap' = str_free(placed.h, param.s)
          /\ results' = [results EXCEPT ![r] =
                [life |-> "live", state |-> STATE_ERROR,
                 buf |-> [msg |-> placed.s, val |-> 0, pid |-> pid],
                 how |-> "error", src |-> Message(e), mv |-> "no"]]
          /\ payloads' = [payloads EXCEPT ![pid] = [type |-> "E", dtors |-> 0]]
    /\ lastOp' = [Op("Result(E)", r, e, <<>>, <<>>) EXCEPT !.how = "error"]
    /\ UNCHANGED <<errs, copies, pc>>

\* Result(E e) called with std::move(err): the parameter takes the
\* argument's buffer (Err(Err&&)), the payload is a copy of the parameter
ResultFromErrMove(r, e) ==
    /\ pc = "run"
    /\ results[r].life = "unborn"
    /\ errs[e].live
    /\ CanAlloc(heap, 1)
    /\ LET param == errs[e].msg
           placed == PlaceErr(heap, param)
           pid == r
       IN /\ heap' = str_free(placed.h, param)
          /\ results' = [results EXCEPT ![r] =
                [life |-> "live", state |-> STATE_ERROR,
                 buf |-> [msg |-> placed.s, val |-> 0, pid |-> pid],
                 how |-> "error", src |-> Message(e), mv |-> "no"]]
          /\ payloads' = [payloads EXCEPT ![pid] = [type |-> "E", dtors |-> 0]]
    /\ errs' = [errs EXCEPT ![e].msg = str_new]
    /\ lastOp' = [Op("Result(E&&)", r, e, <<>>, <<>>) EXCEPT !.how = "error"]
    /\ UNCHANGED <<copies, pc>>

\* template<typename... TArgs> Result(TArgs&&... args)
ResultFromValue(r, args) ==
    /\ pc = "run"
    /\ results[r].life = "unborn"
    /\ LET pid == r IN
       /\ results' = [results EXCEPT ![r] =
                [life |-> "live", state |-> STATE_VALUE,
                 buf |-> [msg |-> str_new, val |-> T_ctor(args), pid |-> pid],
                 how |-> "value", src |-> args, mv |-> "no"]]
       /\ payloads' = [payloads EXCEPT ![pid] = [type |-> "T", dtors |-> 0]]
    /\ lastOp' = [Op("Result(T)", r, None, <<>>, <<>>) EXCEPT !.how = "value"]
    /\ UNCHANGED <<errs, heap, copies, pc>>

\* Result(Result&&) = default: _buffer and state are copied member-wise,
\* the source keeps both.  Callers keep to the documented protocol: a
\* moved-from Result is only ever destroyed.
ResultMove(r, o) ==
    /\ pc = "run"
    /\ results[r].life = "unborn"
    /\ results[o].life = "live"
    /\ results[o].mv # "from"
    /\ results' = [results EXCEPT ![r] = [results[o] EXCEPT !.mv = "to"],
                                  ![o].mv = "from"]
    /\ lastOp' = [Op("Result(&&)", r, o, <<>>, <<>>) EXCEPT
                     !.how = results[o].how, !.pid = results[o].buf.pid]
    /\ UNCHANGED <<errs, heap, payloads, copies, pc>>

\* Result& operator=(Result&&) = default: the same member-wise copy, over
\* the destination's payload
ResultAssignMove(r, o) ==
    /\ pc = "run"
    /\ results[r].life = "live"
    /\ results[o].life = "live"
    /\ results[o].mv # "from"
    /\ results' = [results EXCEPT ![o].mv = "from",
                                  ![r] = [results[o] EXCEPT !.mv = IF r = o THEN "from" ELSE "to"]]
    /\ lastOp' = [Op("Result=(&&)", r, o, <<>>, <<>>) EXCEPT
                     !.how = results[o].how, !.pid = results[r].buf.pid]
    /\ UNCHANGED <<errs, heap, payloads, copies, pc>>

\* DtorRuns testing `state` instead of `state & BIT` in both branches
DtorRuns_both(st) == [E |-> IF st # STATE_EMPTY THEN 1 ELSE 0,
                      T |-> IF st # STATE_EMPTY THEN 1 ELSE 0]

\* the payload destructors ~Result() runs for a discriminant
DtorRuns(st) == [E |-> IF BitAnd(st, STATE_ERROR) # 0 THEN 1 ELSE 0,
                 T |-> IF BitAnd(st, STATE_VALUE) # 0 THEN 1 ELSE 0]

\* ~Result(): err->~E() releases the payload's message.  Releasing a buffer
\* that is already released is undefined: the process goes on or crashes.
ResultDtor(r) ==
    /\ pc = "run"
    /\ results[r].life = "live"
    /\ LET run == DtorRuns(results[r].state)
           b == results[r].buf
           twice == run.E = 1 /\ b.msg.ptr # NULL /\ heap[b.msg.ptr].st # "live"
       IN /\ heap' = IF run.E = 1 THEN str_free(heap, b.msg) ELSE heap
          /\ payloads' = [payloads EXCEPT ![b.pid].dtors = @ + run.E + run.T]
          /\ pc' \in IF twice THEN {"run", "crashed"} ELSE {"run"}
          /\ lastOp' = [Op("~Result", r, None, <<>>, <<>>) EXCEPT
                           !.ranE = run.E, !.ranT = run.T, !.how = results[r].how,
                           !.mv = results[r].mv, !.pid = b.pid]
    /\ results' = [results EXCEPT ![r] = [NoResult EXCEPT !.life = "dead"]]
    /\ UNCHANGED <<errs, copies>>

\* E& error() / const E& error() const { mn_assert(has_error()); return *(E*)_buffer; }
\* `ret` is the message read through the returned reference
error(r) ==
    LET ok == mn_assert(has_error(r)) IN
    [out |-> ok, ret |-> IF ok = "run" THEN MsgOf(heap, results[r].buf.msg) ELSE <<>>]

\* value() without its mn_assert
value_unchecked(r) == [out |-> "run", ret |-> <<results[r].buf.val>>]

\* T& value() { mn_assert(has_value()); return *(T*)_buffer; }
value(r) ==
    LET ok == mn_assert(has_value(r)) IN
    [out |-> ok, ret |-> IF ok = "run" THEN <<results[r].buf.val>> ELSE <<>>]

CallError(r, const) ==
    /\ pc = "run"
    /\ results[r].life = "live"
    /\ results[r].mv # "from"
    /\ LET a == error(r) IN
       /\ pc' = a.out
       /\ lastOp' = [Op(IF const THEN "error() const" ELSE "error()", r, None, <<>>, <<>>) EXCEPT
                        !.out = a.out, !.ret = a.ret, !.how = results[r].how,
                        !.mv = results[r].mv, !.pid = results[r].buf.pid]
    /\ UNCHANGED <<errs, heap, results, payloads, copies>>

CallValue(r) ==
    /\ pc = "run"
    /\ results[r].life = "live"
    /\ results[r].mv # "from"
    /\ LET a == value(r) IN
       /\ pc' = a.out
       /\ lastOp' = [Op("value()", r, None, <<>>, <<>>) EXCEPT
                        !.out = a.out, !.ret = a.ret, !.how = results[r].how,
                        !.mv = results[r].mv, !.pid = results[r].buf.pid]
    /\ UNCHANGED <<errs, heap, results, payloads, copies>>

Init ==
    /\ errs = [e \in ErrIds |-> [live |-> FALSE, msg |-> str_new]]
    /\ heap = [b \in BufIds |-> [st |-> "unalloc", data |-> <<>>, frees |-> 0]]
    /\ results = [r \in ResIds |-> NoResult]
    /\ payloads = [p \in ResIds |-> [type |-> "none", dtors |-> 0]]
    /\ copies = {}
    /\ lastOp = NoOp
    /\ pc = "run"

NextErr ==
    \/ \E e \in ErrIds : ErrDefault(e)
    \/ \E e \in ErrIds, fmt \in Fmts, arg \in Args : ErrFmt(e, fmt, arg)
    \/ \E e \in ErrIds, o \in ErrIds : ErrCopy(e, o)
    \/ \E e \in ErrIds, o \in ErrIds : ErrMove(e, o)
    \/ \E e \in ErrIds : ErrDtor(e)
    \/ \E e \in ErrIds, o \in ErrIds : ErrAssignCopy(e, o)
    \/ \E e \in ErrIds, o \in ErrIds : ErrAssignMove(e, o)
    \/ \E e \in ErrIds, c \in Chars : ErrPush(e, c)

SpecErr == Init /\ [][NextErr]_vars

ValueArgs == {<<>>} \cup {<<v>> : v \in Vals}

NextRes ==
    \/ \E r \in ResIds, e \in ArgIds : ResultFromErr(r, e)
    \/ \E r \in ResIds, e \in ArgIds : ResultFromErrMove(r, e)
    \/ \E r \in ResIds, args \in ValueArgs : ResultFromValue(r, args)
    \/ \E r \in ResIds, o \in ResIds : ResultMove(r, o)
    \/ \E r \in ResIds, o \in ResIds : ResultAssignMove(r, o)
    \/ \E r \in ResIds : ResultDtor(r)
    \/ \E r \in ResIds, const \in BOOLEAN : CallError(r, const)
    \/ \E r \in ResIds : CallValue(r)

\* the Err object a Result is built from is made, and dropped, too
NextArg ==
    \/ \E e \in ArgIds, fmt \in Fmts, arg \in Args : ErrFmt(e, fmt, arg)
    \/ \E e \in ArgIds : ErrDtor(e)

Next == NextArg \/ NextRes

Spec == Init /\ [][Next]_vars

\* ---------------------------------------------------------------- claims
LiveRes == {r \in ResIds : results[r].life = "live"}
LiveErr == {e \in ErrIds : errs[e].live}
ErrorCalls == {"error()", "error() const"}

\* C1: every constructed Result has exactly one of has_error() and
\* has_value(): has_error() exactly when it was built from an error,
\* has_value() exactly when it was built from value arguments; its
\* discriminant is never STATE_EMPTY and never both bits.
C1_ExactlyOne ==
    \A r \in LiveRes :
        /\ has_error(r) # has_value(r)
        /\ has_error(r) <=> results[r].how = "error"
        /\ has_value(r) <=> results[r].how = "value"
        /\ results[r].state \notin {STATE_EMPTY, STATE_ERROR + STATE_VALUE}

\* an error-result and a result built from the empty argument list, both alive
C1_Witness ==
    \E r, q \in LiveRes :
        /\ results[r].how = "error"
        /\ results[q].how = "value" /\ results[q].src = <<>>

\* C2: value() on an error-result and error() on a value-result end in
\* the fatal assertion and return nothing; value() on a value-result and
\* error() on an error-result return normally.
C2_MisuseAborts ==
    lastOp.op \in ErrorCalls \cup {"value()"} =>
        LET wrong == \/ lastOp.op = "value()" /\ lastOp.how = "error"
                     \/ lastOp.op \in ErrorCalls /\ lastOp.how = "value"
        IN /\ wrong => lastOp.out = "aborted" /\ pc = "aborted" /\ lastOp.ret = <<>>
           /\ ~wrong => lastOp.out = "run" /\ pc = "run"

\* value() has just been called on a Result built from an error
C2_Witness ==
    /\ lastOp.op = "value()"
    /\ lastOp.how = "error"
    /\ pc = "aborted"

\* C3: every payload a Result constructed has its destructor run exactly
\* once: never twice, and once every Result is destroyed never zero times.
C3_DestroyedExactlyOnce ==
    /\ \A p \in ResIds : payloads[p].dtors <= 1
    /\ (\A r \in ResIds : results[r].life = "dead") =>
           \A p \in ResIds : payloads[p].type # "none" => payloads[p].dtors = 1

\* C4: the destructor of a Result that was never moved runs exactly one
\* payload destructor, the one its discriminant selects, and that payload
\* is then destroyed once; for STATE_EMPTY it runs none.
C4_DtorSelects ==
    /\ DtorRuns(STATE_EMPTY) = [E |-> 0, T |-> 0]
    /\ (lastOp.op = "~Result" /\ lastOp.mv = "no") =>
           /\ lastOp.ranE + lastOp.ranT = 1
           /\ lastOp.how = "error" => lastOp.ranE = 1 /\ lastOp.ranT = 0
           /\ lastOp.how = "value" => lastOp.ranT = 1 /\ lastOp.ranE = 0
           /\ payloads[lastOp.pid].dtors = 1
           /\ pc = "run"

\* a never-moved error-result has just been destroyed, and a never-moved
\* value-result was destroyed before it
C4_Witness ==
    /\ lastOp.op = "~Result"
    /\ lastOp.mv = "no"
    /\ lastOp.how = "error"
    /\ \E p \in ResIds : payloads[p].type = "T" /\ payloads[p].dtors = 1

\* C5: over the Err operations no message buffer is released twice, no two
\* live Err hold the same buffer, no live Err holds a released buffer,
\* every unreleased buffer is held by a live Err, and once every Err is
\* destroyed every allocated buffer has been released exactly once.
C5_NoLeakNoDoubleFree ==
    /\ \A b \in BufIds : heap[b].frees <= 1
    /\ \A e, o \in LiveErr : (e # o /\ errs[e].msg.ptr # NULL) => errs[e].msg.ptr # errs[o].msg.ptr
    /\ \A e \in LiveErr : errs[e].msg.ptr # NULL => heap[errs[e].msg.ptr].st = "live"
    /\ \A b \in BufIds : heap[b].st = "live" => \E e \in LiveErr : errs[e].msg.ptr = b
    /\ LiveErr = {} => \A b \in BufIds : heap[b].st # "unalloc" => heap[b].frees = 1

\* every Err is destroyed, the last one by its destructor, after three
\* buffers were allocated
C5_Witness ==
    /\ LiveErr = {}
    /\ lastOp.op = "~Err"
    /\ Cardinality({b \in BufIds : heap[b].st = "freed"}) >= 3

\* C6: after Err(Err&&) or operator=(Err&&) into a distinct Err the source
\* is empty (its bool is false) and the destination holds the message the
\* source held before.
C6_MoveEmptiesSource ==
    (lastOp.op = "Err(&&)" \/ (lastOp.op = "=(&&)" /\ lastOp.dst # lastOp.src)) =>
        /\ Message(lastOp.src) = <<>>
        /\ ~ErrBool(lastOp.src)
        /\ Message(lastOp.dst) = lastOp.pre
        /\ ErrBool(lastOp.dst) <=> lastOp.pre # <<>>

\* a non-empty Err has just been move-assigned over another non-empty Err
C6_Witness ==
    /\ lastOp.op = "=(&&)"
    /\ lastOp.dst # lastOp.src
    /\ Len(lastOp.pre) = 2
    /\ lastOp.old # <<>>

\* C7: error() on a Result built from an Err with a non-empty message
\* returns a payload whose message is the one the Err had at construction;
\* has_error() is true and has_value() is false.
C7_ErrorRoundTrip ==
    (/\ lastOp.op \in ErrorCalls
     /\ lastOp.how = "error"
     /\ lastOp.mv = "no"
     /\ results[lastOp.dst].src # <<>>) =>
        /\ lastOp.out = "run"
        /\ lastOp.ret = results[lastOp.dst].src
        /\ has_error(lastOp.dst)
        /\ ~has_value(lastOp.dst)

\* error() has just read a two-character message out of a never-moved Result
C7_Witness ==
    /\ lastOp.op \in ErrorCalls
    /\ lastOp.how = "error"
    /\ lastOp.mv = "no"
    /\ lastOp.ret = <<"a", "b">>

\* C8: value() on a Result built from a value v returns v; has_value() is
\* true and has_error() is false.
C8_ValueRoundTrip ==
    (/\ lastOp.op = "value()"
     /\ lastOp.how = "value"
     /\ lastOp.mv = "no"
     /\ Len(results[lastOp.dst].src) = 1) =>
        /\ lastOp.out = "run"
        /\ lastOp.ret = results[lastOp.dst].src
        /\ has_value(lastOp.dst)
        /\ ~has_error(lastOp.dst)

\* value() has just returned 42 from Result<int, Err> r(42)
C8_Witness ==
    /\ lastOp.op = "value()"
    /\ lastOp.mv = "no"
    /\ results[lastOp.dst].src = <<42>>
    /\ lastOp.ret = <<42>>

\* C9: a step that operates on one Err of a <<copy, original>> pair and not
\* on the other (a mutation, a move-from, a destruction) leaves the other
\* alive with its message unchanged.
C9_CopyIndependent ==
    [][\A p \in copies :
          LET ops == {lastOp'.dst, lastOp'.src} IN
          /\ (p[1] \in ops /\ p[2] \notin ops) =>
                 errs'[p[2]].live /\ MsgOf(heap', errs'[p[2]].msg) = Message(p[2])
          /\ (p[2] \in ops /\ p[1] \notin ops) =>
                 errs'[p[1]].live /\ MsgOf(heap', errs'[p[1]].msg) = Message(p[1])]_vars

\* a copy has just been appended to, and differs from its non-empty original
C9_Witness ==
    /\ lastOp.op = "push"
    /\ \E p \in copies :
          /\ p[1] = lastOp.dst
          /\ Message(p[2]) # <<>>
          /\ Message(p[1]) # Message(p[2])

\* C10: after a = b, self-assignment included, a holds the message b held
\* before and b's message is unchanged.
C10_AssignReplaces ==
    lastOp.op = "=(const&)" =>
        /\ Message(lastOp.dst) = lastOp.pre
        /\ Message(lastOp.src) = lastOp.pre

====
